---- MODULE Spec2Model ----
(***************************************************************************)
(* Nation Builder VR (src/src/script.js): the policy simulation engine.    *)
(* script.js holds two builds of the engine, one after the other: variant  *)
(* "A" (lines 1-1633, income/expense ledger, delayed refugee bonus) and    *)
(* variant "B" (lines 1634-3220, gdp/3.5 budget, GLTF models).  A          *)
(* behaviour of this module is one page session of one variant.            *)
(* Next to gameState the state holds the tick timer, the content of the    *)
(* menu panel and the size of the 3D scene's population (people, with the  *)
(* model loads of variant B that are still in flight).                     *)
(*                                                                         *)
(* Number representation.  JavaScript numbers are doubles; the model keeps *)
(* every statistic as an exact integer:                                    *)
(*   happiness     in half points        (HScale units per percent point), *)
(*   unemployment  in 1/1800 of a point  (UScale units per percent point), *)
(*   population, gdp, budget, score, year as themselves.                   *)
(* Math.floor over a product with a decimal literal is computed on the     *)
(* exact rational, except Math.floor(x * 0.7), whose double result differs *)
(* from the exact one on known arguments (Floor07).  Accumulated rounding  *)
(* error of double additions (5.0 + 2.5 - 1.2 ...) is not modelled.        *)
(***************************************************************************)
EXTENDS Integers, Sequences, FiniteSets, TLC

\* ---------------------------------------------------------------- bounds
MaxTicks == 1
MaxToggles == 1
MaxReplay == 1
MaxNoisyTicks == 8

\* ------------------------------------------------------- scale and helpers
HScale == 2
UScale == 1800

Max(a, b) == IF a >= b THEN a ELSE b
Min(a, b) == IF a <= b THEN a ELSE b
Abs(a) == IF a >= 0 THEN a ELSE 0 - a

\* A JavaScript call evaluates its argument once, before the body runs:
\* F applied to the value of x.
Call(F(_), x) == CHOOSE r \in {F(y) : y \in {x}} : TRUE

\* Math.floor(x * 0.7) on doubles: one less than the exact floor for the
\* positive multiples of ten listed (x * 0.7 rounds to just below 7x/10).
Floor07(x) ==
    LET slip == /\ x % 10 = 0
                /\ \/ x = 90
                   \/ x >= 170 /\ x <= 180
                   \/ x >= 330 /\ x <= 360
                   \/ x >= 650 /\ x <= 730
                   \/ x >= 1290 /\ x <= 1460
                   \/ x >= 2570 /\ x <= 2920
                   \/ x >= 5130 /\ x <= 5850
    IN  ((7 * x) \div 10) - (IF slip THEN 1 ELSE 0)

\* ------------------------------------------------------------ static data
Variants == {"A", "B"}
Policies == {"openBorders", "skilledWorker", "refugee", "family", "investor", "strict"}
Difficulties == {"easy", "medium", "hard"}
AchievementIds == {"pop_5000", "pop_10000", "gdp_25000", "gdp_50000",
                   "happy_90", "unemp_2", "year_10", "score_10k"}

SIMULATION_INTERVAL == 2500
INITIAL_POPULATION == 1000
INITIAL_GDP == 55000
INITIAL_HAPPINESS == 70
INITIAL_UNEMPLOYMENT == 5
INITIAL_YEAR == 2024
MAX_PEOPLE == 150

INITIAL_BUDGET(v) == IF v = "A" THEN 10000 ELSE 55000

policyCosts(v) ==
    IF v = "A"
    THEN [openBorders |-> 700, skilledWorker |-> 600, refugee |-> 900,
          family |-> 400, investor |-> 0 - 1500, strict |-> 300]
    ELSE [openBorders |-> 500, skilledWorker |-> 300, refugee |-> 400,
          family |-> 200, investor |-> 100, strict |-> 300]

\* difficultySettings with a happiness drain of 3 in place of 3.5 on hard.
difficultySettingsHardDrainsThree ==
    [easy   |-> [budget |-> 10000, happinessDrain |-> 2, unempMultiplier |-> 7,  gdpMultiplier |-> 13],
     medium |-> [budget |-> 5000,  happinessDrain |-> 4, unempMultiplier |-> 10, gdpMultiplier |-> 10],
     hard   |-> [budget |-> 2000,  happinessDrain |-> 6, unempMultiplier |-> 15, gdpMultiplier |-> 7]]
\* difficultySettings with the drains of medium and hard exchanged.
difficultySettingsDrainsSwapped ==
    [easy   |-> [budget |-> 10000, happinessDrain |-> 2, unempMultiplier |-> 7,  gdpMultiplier |-> 13],
     medium |-> [budget |-> 5000,  happinessDrain |-> 7, unempMultiplier |-> 10, gdpMultiplier |-> 10],
     hard   |-> [budget |-> 2000,  happinessDrain |-> 4, unempMultiplier |-> 15, gdpMultiplier |-> 7]]
\* happinessDrain in HScale units; the two multipliers in tenths.
difficultySettings ==
    [easy   |-> [budget |-> 10000, happinessDrain |-> 2, unempMultiplier |-> 7,  gdpMultiplier |-> 13],
     medium |-> [budget |-> 5000,  happinessDrain |-> 4, unempMultiplier |-> 10, gdpMultiplier |-> 10],
     hard   |-> [budget |-> 2000,  happinessDrain |-> 7, unempMultiplier |-> 15, gdpMultiplier |-> 7]]

getImmigrantCount(v, p) ==
    IF v = "A"
    THEN [openBorders |-> 6, skilledWorker |-> 4, refugee |-> 5,
          family |-> 5, investor |-> 2, strict |-> 0][p]
    ELSE [openBorders |-> 60, skilledWorker |-> 25, refugee |-> 35,
          family |-> 30, investor |-> 12, strict |-> 0][p]

\* The population threshold of the last terminal check.
PopulationCrisisLevel(v) == IF v = "A" THEN 500 ELSE 100

NoPolicies == [p \in Policies |-> FALSE]

\* createInitialPopulation(): the citizens it asks createPerson for.
INITIAL_CITIZENS(v) == IF v = "A" THEN 20 ELSE 40

\* gameState as constructed at page load.
InitialGameState(v) ==
    [started |-> FALSE, paused |-> FALSE, difficulty |-> "medium",
     population |-> INITIAL_POPULATION, gdp |-> INITIAL_GDP,
     happiness |-> INITIAL_HAPPINESS * HScale,
     unemployment |-> INITIAL_UNEMPLOYMENT * UScale,
     year |-> INITIAL_YEAR, budget |-> INITIAL_BUDGET(v), score |-> 0,
     achievements |-> {}, refugeeProgramStarted |-> 0,
     policies |-> NoPolicies]

\* ------------------------------------------------------------------ state
VARIABLES
    variant,      \* which build of the engine the page runs
    gameState,    \* the gameState object
    elapsed,      \* Date.now() - lastSimulationTime, saturated above the interval
    menu,         \* content of #vrMenu: "main", or the reason endGame wrote into it
    nTicks,       \* ticks run in this behaviour (bounded by MaxTicks)
    nToggles,     \* accepted toggles in this behaviour (bounded by MaxToggles)
    people,       \* people.length: the person objects registered in the scene
    loading,      \* createPerson calls whose model load has not called back yet
    cached        \* modelCache holds the model (variant B; variant A loads none)

vars == <<variant, gameState, elapsed, menu, nTicks, nToggles, people, loading, cached>>

\* -------------------------------------------------------------- the scene
\* spawnImmigrants(count, type): the number of createPerson calls it makes.
spawnCount(v, count) ==
    IF count = 0 THEN 0
    ELSE IF v = "A" THEN Min(count, 10)
    ELSE Min((count + 5) \div 6, 5)

\* The createPerson calls of the first n presentation calls of a handler;
\* every spawnImmigrants call of script.js passes the policy's
\* getImmigrantCount or the literal equal to it.
RECURSIVE createPersonCalls(_, _, _)
createPersonCalls(v, fx, n) ==
    IF n = 0 THEN 0
    ELSE createPersonCalls(v, fx, n - 1)
         + (IF fx[n][1] = "spawn" THEN spawnCount(v, getImmigrantCount(v, fx[n][2])) ELSE 0)

\* The scene after one handler has made n createPerson calls, sc being
\* [people, loading, cached] before it.  Variant A tests the capacity and
\* registers the person in the same call.  Variant B tests the capacity in
\* the call and registers the person in the callback of the model's
\* promise: with the model in the cache the promise is resolved inside the
\* call and its callback runs when the handler has returned, before any
\* other handler; without it the load is left in flight.
createPersons(v, sc, n) ==
    IF sc.people >= MAX_PEOPLE THEN sc
    ELSE IF v = "A" THEN [sc EXCEPT !.people = Min(MAX_PEOPLE, @ + n)]
    ELSE IF sc.cached THEN [sc EXCEPT !.people = @ + n]
    ELSE [sc EXCEPT !.loading = @ + n]

\* The scene after a handler that made the presentation calls fx.
sceneAfter(v, sc, fx) == createPersons(v, sc, createPersonCalls(v, fx, Len(fx)))

\* ------------------------------------------------------- policy management
\* The early return of togglePolicy with the pause test left out.
toggleBlockedIgnoresPause(gs) == ~gs.started

\* togglePolicy: if (!gameState.started || gameState.paused) return;
toggleBlocked(gs) == ~gs.started \/ gs.paused

\* togglePolicy without the budget test.
toggleRejectedNever(v, gs, p) == FALSE
\* The budget test applied to positive costs only.
toggleRejectedPositiveCostOnly(v, gs, p) ==
    ~gs.policies[p] /\ policyCosts(v)[p] > 0 /\ policyCosts(v)[p] > gs.budget

\* if (!currentState && cost > gameState.budget)
toggleRejected(v, gs, p) == ~gs.policies[p] /\ policyCosts(v)[p] > gs.budget

\* The flip that stamps the refugee programme's start only the first time.
toggleFlipKeepsFirstStart(v, gs, p) ==
    LET currentState == gs.policies[p]
        flipped == [gs EXCEPT !.policies[p] = ~currentState]
    IN  IF v = "A" /\ p = "refugee" /\ ~currentState /\ gs.refugeeProgramStarted = 0
        THEN [flipped EXCEPT !.refugeeProgramStarted = gs.year]
        ELSE flipped
\* The state change of an accepted toggle.
toggleFlip(v, gs, p) ==
    LET currentState == gs.policies[p]
        flipped == [gs EXCEPT !.policies[p] = ~currentState]
    IN  IF v = "A" /\ p = "refugee" /\ ~currentState
        THEN [flipped EXCEPT !.refugeeProgramStarted = gs.year]
        ELSE flipped

\* Accepted toggles that refund the cost on disabling, and that charge it on
\* disabling as well.
toggleAcceptedRefunds(v, gs, p) ==
    [toggleFlip(v, gs, p) EXCEPT
        !.budget = IF gs.policies[p] THEN @ + policyCosts(v)[p] ELSE @ - policyCosts(v)[p]]
toggleAcceptedChargesBoth(v, gs, p) ==
    [toggleFlip(v, gs, p) EXCEPT !.budget = @ - policyCosts(v)[p]]

\* gameState after an accepted toggle (script.js 298-309).
toggleAccepted(v, gs, p) ==
    LET flipped == toggleFlip(v, gs, p)
    IN  IF flipped.policies[p]
        THEN [flipped EXCEPT !.budget = @ - policyCosts(v)[p]]
        ELSE flipped

\* togglePolicy(policyName): the new gameState and the presentation calls made.
togglePolicy(v, gs, p) ==
    IF toggleBlocked(gs)
    THEN [gs |-> gs, fx |-> <<>>]
    ELSE IF toggleRejected(v, gs, p)
    THEN [gs |-> gs, fx |-> << <<"notify", "insufficientBudget">> >>]
    ELSE
      LET refugeeOn == v = "A" /\ p = "refugee" /\ ~gs.policies[p]
          fxRef == IF refugeeOn THEN << <<"notify", "refugeeDelay">> >> ELSE <<>>
      IN  [gs |-> toggleAccepted(v, gs, p),
           fx |-> IF ~gs.policies[p]
                  THEN fxRef \o << <<"notify", "enabled">>, <<"spawn", p>>, <<"hud">> >>
                  ELSE << <<"notify", "disabled">>, <<"hud">> >>]

\* checkGameState that lets a nation with happiness 0 carry on.
checkGameStateNegativeOnly(v, gs) ==
    IF gs.happiness < 0 THEN <<"unhappiness">>
    ELSE IF gs.unemployment >= 40 * UScale THEN <<"unemployment">>
    ELSE IF gs.budget < 0 - 15000 THEN <<"bankruptcy">>
    ELSE IF gs.population <= PopulationCrisisLevel(v) THEN <<"population">>
    ELSE <<>>
\* checkGameState that takes any debt for bankruptcy.
checkGameStateAnyDebt(v, gs) ==
    IF gs.happiness <= 0 THEN <<"unhappiness">>
    ELSE IF gs.unemployment >= 40 * UScale THEN <<"unemployment">>
    ELSE IF gs.budget < 0 THEN <<"bankruptcy">>
    ELSE IF gs.population <= PopulationCrisisLevel(v) THEN <<"population">>
    ELSE <<>>
\* ------------------------------------------------------------ game over
\* checkGameState with the budget test moved in front of the unemployment test.
checkGameStateBudgetFirst(v, gs) ==
    IF gs.happiness <= 0 THEN <<"unhappiness">>
    ELSE IF gs.budget < 0 - 15000 THEN <<"bankruptcy">>
    ELSE IF gs.unemployment >= 40 * UScale THEN <<"unemployment">>
    ELSE IF gs.population <= PopulationCrisisLevel(v) THEN <<"population">>
    ELSE <<>>

\* checkGameState(): the reasons it passes to endGame, in call order.
checkGameState(v, gs) ==
    IF gs.happiness <= 0 THEN <<"unhappiness">>
    ELSE IF gs.unemployment >= 40 * UScale THEN <<"unemployment">>
    ELSE IF gs.budget < 0 - 15000 THEN <<"bankruptcy">>
    ELSE IF gs.population <= PopulationCrisisLevel(v) THEN <<"population">>
    ELSE <<>>

\* endGame faults: one forgets started, one forgets paused.
endGameKeepsStarted(gs) == [gs EXCEPT !.paused = TRUE]
endGameNoPause(gs) == [gs EXCEPT !.started = FALSE]

\* endGame(reason) on gameState.
endGame(gs) == [gs EXCEPT !.started = FALSE, !.paused = TRUE]

\* ------------------------------------------------------------ achievements
AchievementHolds(gs, id) ==
    CASE id = "pop_5000"  -> gs.population >= 5000
      [] id = "pop_10000" -> gs.population >= 10000
      [] id = "gdp_25000" -> gs.gdp >= 25000
      [] id = "gdp_50000" -> gs.gdp >= 50000
      [] id = "happy_90"  -> gs.happiness >= 90 * HScale
      [] id = "unemp_2"   -> gs.unemployment <= 2 * UScale
      [] id = "year_10"   -> gs.year >= 2028
      [] id = "score_10k" -> gs.score >= 10000

AchievementOrder == <<"pop_5000", "pop_10000", "gdp_25000", "gdp_50000",
                      "happy_90", "unemp_2", "year_10", "score_10k">>

\* The ids checkAchievements() adds, in declaration order.
NewAchievements(gs) ==
    SelectSeq(AchievementOrder,
              LAMBDA id : id \notin gs.achievements /\ AchievementHolds(gs, id))

\* checkAchievements that calls showAchievement for every entry whose
\* condition holds, unlocked before or not.
checkAchievementsRenotifies(gs) ==
    LET new == NewAchievements(gs)
        holding == SelectSeq(AchievementOrder, LAMBDA id : AchievementHolds(gs, id))
    IN  [gs |-> [gs EXCEPT !.achievements = @ \cup {new[i] : i \in 1..Len(new)}],
         fx |-> [i \in 1..Len(holding) |-> <<"achievement", holding[i]>>]]
\* checkAchievements that keeps only the ids whose condition holds now.
checkAchievementsCurrentOnly(gs) ==
    LET new == NewAchievements(gs)
    IN  [gs |-> [gs EXCEPT !.achievements = {id \in AchievementIds : AchievementHolds(gs, id)}],
         fx |-> [i \in 1..Len(new) |-> <<"achievement", new[i]>>]]

\* checkAchievements(): for each entry in declaration order, if the id is not
\* in the set and the condition holds, add it and call showAchievement.
checkAchievements(gs) ==
    LET new == NewAchievements(gs)
    IN  [gs |-> [gs EXCEPT !.achievements = @ \cup {new[i] : i \in 1..Len(new)}],
         fx |-> [i \in 1..Len(new) |-> <<"achievement", new[i]>>]]

\* ------------------------------------------------------------ random draws
\* One record fixes every Math.random() result a tick may consume.
\*   noise      Math.floor(Math.random() * 800 - 400)
\*   leave, boom, scandal   the per-policy chances (A), luck: random > 0.4 (B)
\*   roll       the event-trigger draw, in hundredths
\*   pick       Math.random() * totalWeight, in hundredths
\*   bonus      the Economic Boom bonus, severity: the disaster draw in hundredths
NoiseDraws == {0 - 400, 399}
BonusDraws(v) == IF v = "A" THEN {2000, 4999} ELSE {1500, 3999}
SeverityDraws == {0, 32, 33, 65, 66, 99}

eventWeights(v) == IF v = "A" THEN <<25, 20, 15, 10, 10>> ELSE <<40, 25, 25, 10>>
eventNames(v) ==
    IF v = "A"
    THEN <<"Economic Boom", "Natural Disaster", "Tech Breakthrough", "Cultural Festival", "Trade War">>
    ELSE <<"Economic Boom", "Natural Disaster", "Tech Breakthrough", "Cultural Festival">>

RECURSIVE SumSeq(_, _)
SumSeq(w, i) == IF i = 0 THEN 0 ELSE w[i] + SumSeq(w, i - 1)
totalWeight(v) == SumSeq(eventWeights(v), Len(eventWeights(v)))

\* Boundary values of every event's slice of [0, totalWeight).
PickDraws(v) ==
    LET w == eventWeights(v)
    IN  UNION {{SumSeq(w, i - 1), SumSeq(w, i) - 1} : i \in 1..Len(w)}

eventChance(v) == IF v = "A" THEN 25 ELSE 18
RollDraws(v) == {eventChance(v) - 1, eventChance(v)}

\* The for-loop without its  random -= event.weight.
RECURSIVE chooseWeightedNoSubtract(_, _, _)
chooseWeightedNoSubtract(w, random, i) ==
    IF i > Len(w) THEN 0
    ELSE IF random < w[i] THEN i
    ELSE chooseWeightedNoSubtract(w, random, i + 1)

\* The for-loop of triggerRandomEvent: index of the event that fires, 0 if none.
RECURSIVE chooseWeighted(_, _, _)
chooseWeighted(w, random, i) ==
    IF i > Len(w) THEN 0
    ELSE IF random < w[i] THEN i
    ELSE chooseWeighted(w, random - w[i], i + 1)

chosenEvent(v, d) ==
    LET i == chooseWeighted(eventWeights(v), d.pick, 1)
    IN  IF i = 0 THEN "none" ELSE eventNames(v)[i]

NoDraw == [noise |-> 0, leave |-> FALSE, boom |-> FALSE, scandal |-> FALSE,
           luck |-> TRUE, roll |-> 99, pick |-> 0, bonus |-> 0, severity |-> 0]

\* The draws that can make a difference to a tick of gs.
TickDraws(v, gs) ==
    LET pol == gs.policies
        B(c) == IF c THEN BOOLEAN ELSE {FALSE}
        quiet == {[NoDraw EXCEPT !.noise = n, !.leave = l, !.boom = b, !.scandal = s,
                                 !.luck = k, !.roll = r] :
                    n \in NoiseDraws, l \in B(v = "A" /\ pol.skilledWorker),
                    b \in B(v = "A" /\ pol.family), s \in B(v = "A" /\ pol.investor),
                    k \in (IF v = "B" /\ pol.openBorders THEN BOOLEAN ELSE {TRUE}),
                    r \in RollDraws(v)}
        withEvent(d) ==
            IF d.roll >= eventChance(v) THEN {d}
            ELSE UNION {
                   LET e == chosenEvent(v, [d EXCEPT !.pick = k])
                   IN  {[d EXCEPT !.pick = k, !.bonus = bo, !.severity = sv] :
                          bo \in (IF e = "Economic Boom" THEN BonusDraws(v) ELSE {0}),
                          sv \in (IF e = "Natural Disaster" /\ v = "A" THEN SeverityDraws ELSE {0})}
                   : k \in PickDraws(v)}
    IN  UNION {withEvent(d) : d \in quiet}

\* The early return of simulateYear with the pause test left out.
tickBlockedIgnoresPause(gs) == ~gs.started

\* simulateYear: if (!gameState.started || gameState.paused) return;
tickBlocked(gs) == ~gs.started \/ gs.paused

\* Halving that rounds half a person up.
floorHalfRoundsUp(x) == (x + 1) \div 2

\* Math.floor(x * 0.5) of the strict policy (script.js 225, variant B 2597),
\* on the whole numbers of people it is applied to.
floorHalf(x) == x \div 2
\* calculateYearlyBudget without the  cost > 0  test: the investor visa's
\* negative cost is counted among the maintenance costs.
calculateYearlyBudgetAllCosts(gs) ==
    LET income == (gs.gdp \div 4) + (gs.population \div 2)
                  + (IF gs.policies["investor"] THEN 1500 ELSE 0)
        maintenance(p) == IF gs.policies[p] THEN policyCosts("A")[p] ELSE 0
        unemployed == (gs.population * gs.unemployment) \div (100 * UScale)
        expenses == ((8 * gs.population) \div 10)
                    + maintenance("openBorders") + maintenance("skilledWorker")
                    + maintenance("refugee") + maintenance("family")
                    + maintenance("investor") + maintenance("strict")
                    + unemployed * 100
    IN  income - expenses
\* ------------------------------------------------------- variant A: the tick
calculateYearlyBudget(gs) ==
    LET income == (gs.gdp \div 4) + (gs.population \div 2)
                  + (IF gs.policies["investor"] THEN 1500 ELSE 0)
        maintenance(p) == IF gs.policies[p] /\ policyCosts("A")[p] > 0
                          THEN policyCosts("A")[p] ELSE 0
        unemployed == (gs.population * gs.unemployment) \div (100 * UScale)
        expenses == ((8 * gs.population) \div 10)
                    + maintenance("openBorders") + maintenance("skilledWorker")
                    + maintenance("refugee") + maintenance("family")
                    + maintenance("investor") + maintenance("strict")
                    + unemployed * 100
    IN  income - expenses

\* An event's effect() of variant A, applied to gameState without clamping
\* beyond what the effect itself does.
triggerRandomEventA(gs, d) ==
    LET e == chosenEvent("A", d)
        sev == IF d.severity < 33 THEN 1 ELSE IF d.severity < 66 THEN 2 ELSE 3
        gdpLoss == <<1200, 2500, 5000>>[sev]
        happinessLoss == <<8, 15, 25>>[sev]
        populationLoss == (gs.population * <<2, 5, 10>>[sev]) \div 1000
        budgetCost == <<500, 1000, 2000>>[sev]
    IN  CASE e = "Economic Boom" ->
               [gs |-> [gs EXCEPT !.gdp = @ + d.bonus, !.happiness = @ + 5 * HScale],
                fx |-> << <<"notify", "boom">>, <<"particles">>, <<"log", e>> >>]
          [] e = "Natural Disaster" ->
               [gs |-> [gs EXCEPT !.gdp = @ - gdpLoss,
                                  !.happiness = @ - happinessLoss * HScale,
                                  !.population = Max(100, @ - populationLoss),
                                  !.budget = @ - budgetCost],
                fx |-> << <<"notify", "disaster">>, <<"particles">> >>
                       \o (IF populationLoss > 0 THEN << <<"notify", "livesLost">> >> ELSE <<>>)
                       \o << <<"log", e>> >>]
          [] e = "Tech Breakthrough" ->
               [gs |-> [gs EXCEPT !.unemployment = Max(0, @ - (5 * UScale) \div 2),
                                  !.gdp = @ + 1500, !.budget = @ - 300],
                fx |-> << <<"notify", "tech">>, <<"particles">>, <<"log", e>> >>]
          [] e = "Cultural Festival" ->
               [gs |-> [gs EXCEPT !.happiness = @ + 12 * HScale, !.budget = @ - 200],
                fx |-> << <<"notify", "festival">>, <<"particles">>, <<"log", e>> >>]
          [] e = "Trade War" ->
               [gs |-> [gs EXCEPT !.gdp = @ - 1800, !.unemployment = @ + (3 * UScale) \div 2],
                fx |-> << <<"notify", "tradeWar">>, <<"particles">>, <<"log", e>> >>]
          [] OTHER -> [gs |-> gs, fx |-> <<>>]

\* An event's effect() of variant B.
triggerRandomEventB(gs, d) ==
    LET e == chosenEvent("B", d)
    IN  CASE e = "Economic Boom" ->
               [gs |-> [gs EXCEPT !.gdp = @ + d.bonus],
                fx |-> << <<"notify", "boom">>, <<"particles">> >>]
          [] e = "Natural Disaster" ->
               [gs |-> [gs EXCEPT !.happiness = @ - 10 * HScale, !.gdp = @ - 800],
                fx |-> << <<"notify", "disaster">>, <<"particles">> >>]
          [] e = "Tech Breakthrough" ->
               [gs |-> [gs EXCEPT !.unemployment = Max(0, @ - 2 * UScale), !.gdp = @ + 600],
                fx |-> << <<"notify", "tech">>, <<"particles">> >>]
          [] e = "Cultural Festival" ->
               [gs |-> [gs EXCEPT !.happiness = @ + 8 * HScale],
                fx |-> << <<"notify", "festival">>, <<"particles">> >>]
          [] OTHER -> [gs |-> gs, fx |-> <<>>]

\* The clamped application of the accumulated changes (script.js 241-244).
applyChangesA(gs, pc, gc, hc, uc) ==
    [gs EXCEPT !.population = Max(100, @ + pc),
               !.gdp = Max(1000, @ + gc),
               !.happiness = Max(0, Min(100 * HScale, @ + hc)),
               !.unemployment = Max(0, Min(40 * UScale, @ + uc))]

\* The per-tick score of variant A (script.js 251-256):
\* floor(2*pc + gc/100 + 3*hc - 20*|uc|) on the exact rationals.
newScoreA(pc, gc, hc, uc) ==
    (1800 * pc + 9 * gc + 1350 * hc - 10 * Abs(uc)) \div 900

\* The accumulated changes with strict as one more additive term: its decline
\* and bonus without the dampening of the totals.
yearChangesAStrictAdditive(gs, d) ==
    LET pol == gs.policies
        diff == difficultySettings[gs.difficulty]
        year == gs.year + 1
        On(p, x) == IF pol[p] THEN x ELSE 0
        integrated == /\ pol["refugee"]
                      /\ gs.refugeeProgramStarted # 0
                      /\ year >= gs.refugeeProgramStarted + 2
        leave == pol["skilledWorker"] /\ d.leave
        boom == pol["family"] /\ d.boom
        scandal == pol["investor"] /\ d.scandal
        pc0 == On("openBorders", 60) + On("skilledWorker", 20) - (IF leave THEN 3 ELSE 0)
               + On("refugee", 30) + On("family", 25) + (IF boom THEN 5 ELSE 0)
               + On("investor", 8)
        gc0 == (gs.population \div 100) + d.noise
               + On("openBorders", 1200) + On("skilledWorker", 2200)
               - On("refugee", 400) + (IF integrated THEN 600 ELSE 0)
               - On("family", 300) + On("investor", 1800)
        hc0 == 0 - diff.happinessDrain
               - On("openBorders", 12 * HScale) - On("skilledWorker", 5 * HScale)
               + On("refugee", 8 * HScale) + On("family", 15 * HScale)
               - On("investor", 8 * HScale) - (IF scandal THEN 10 * HScale ELSE 0)
        uc == On("openBorders", (5 * UScale) \div 2) - On("skilledWorker", (12 * UScale) \div 10)
              + On("refugee", (3 * UScale) \div 2) - (IF integrated THEN UScale ELSE 0)
              - On("investor", (8 * UScale) \div 10)
        naturalDecline == (8 * gs.population) \div 1000
        immigrants == pc0
        pc == IF pol["strict"] THEN immigrants - naturalDecline ELSE immigrants
        gc == IF pol["strict"] THEN gc0 - (gs.gdp \div 100) ELSE gc0
        hc == IF pol["strict"] THEN hc0 + 20 * HScale ELSE hc0
    IN  [pc |-> pc, gc |-> gc, hc |-> hc, uc |-> uc, immigrants |-> immigrants,
         scandal |-> scandal, leave |-> leave, boom |-> boom,
         integrated |-> integrated, aging |-> pol["strict"] /\ naturalDecline > 0]
\* The changes a tick of variant A accumulates before applying them.
yearChangesA(gs, d) ==
    LET pol == gs.policies
        diff == difficultySettings[gs.difficulty]
        year == gs.year + 1
        On(p, x) == IF pol[p] THEN x ELSE 0
        integrated == /\ pol["refugee"]
                      /\ gs.refugeeProgramStarted # 0
                      /\ year >= gs.refugeeProgramStarted + 2
        leave == pol["skilledWorker"] /\ d.leave
        boom == pol["family"] /\ d.boom
        scandal == pol["investor"] /\ d.scandal
        pc0 == On("openBorders", 60) + On("skilledWorker", 20) - (IF leave THEN 3 ELSE 0)
               + On("refugee", 30) + On("family", 25) + (IF boom THEN 5 ELSE 0)
               + On("investor", 8)
        gc0 == (gs.population \div 100) + d.noise
               + On("openBorders", 1200) + On("skilledWorker", 2200)
               - On("refugee", 400) + (IF integrated THEN 600 ELSE 0)
               - On("family", 300) + On("investor", 1800)
        hc0 == 0 - diff.happinessDrain
               - On("openBorders", 12 * HScale) - On("skilledWorker", 5 * HScale)
               + On("refugee", 8 * HScale) + On("family", 15 * HScale)
               - On("investor", 8 * HScale) - (IF scandal THEN 10 * HScale ELSE 0)
        uc == On("openBorders", (5 * UScale) \div 2) - On("skilledWorker", (12 * UScale) \div 10)
              + On("refugee", (3 * UScale) \div 2) - (IF integrated THEN UScale ELSE 0)
              - On("investor", (8 * UScale) \div 10)
        naturalDecline == (8 * gs.population) \div 1000
        immigrants == IF pol["strict"] THEN floorHalf(pc0) ELSE pc0
        pc == IF pol["strict"] THEN immigrants - naturalDecline ELSE immigrants
        gc == IF pol["strict"] THEN Floor07(gc0) - (gs.gdp \div 100) ELSE gc0
        hc == IF pol["strict"] THEN hc0 + 20 * HScale ELSE hc0
    IN  [pc |-> pc, gc |-> gc, hc |-> hc, uc |-> uc, immigrants |-> immigrants,
         scandal |-> scandal, leave |-> leave, boom |-> boom,
         integrated |-> integrated, aging |-> pol["strict"] /\ naturalDecline > 0]

\* The end of a tick, the same in both variants: checkAchievements(),
\* updateHUD(), checkGameState() and what it hands to endGame, then the calls
\* that follow it.  ev is the state and the calls so far.
finishYear(v, ev, fxTail) ==
    Call(LAMBDA ach :
           Call(LAMBDA ended :
                  [gs |-> IF Len(ended) > 0 THEN endGame(ach.gs) ELSE ach.gs,
                   fx |-> ev.fx \o ach.fx \o << <<"hud">> >>
                          \o [i \in 1..Len(ended) |-> <<"gameover", ended[i]>>]
                          \o fxTail,
                   ended |-> ended],
                checkGameState(v, ach.gs)),
         checkAchievements(ev.gs))

\* The random event of a tick, if the roll triggers one.
rollEvent(v, gs, d, fx) ==
    IF d.roll < eventChance(v)
    THEN Call(LAMBDA ev : [gs |-> ev.gs, fx |-> fx \o ev.fx],
              IF v = "A" THEN triggerRandomEventA(gs, d) ELSE triggerRandomEventB(gs, d))
    ELSE [gs |-> gs, fx |-> fx]

\* The presentation calls of the policy section of a tick of variant A.
policyEffectsA(pol, c) ==
    LET If(b, q) == IF b THEN q ELSE <<>>
    IN  If(pol["openBorders"], << <<"spawn", "openBorders">> >>)
        \o If(c.leave, << <<"notify", "brainDrain">> >>)
        \o If(pol["skilledWorker"], << <<"spawn", "skilledWorker">> >>)
        \o If(c.integrated, << <<"notify", "integrated">> >>)
        \o If(pol["refugee"], << <<"spawn", "refugee">> >>)
        \o If(c.boom, << <<"notify", "babyBoom">> >>)
        \o If(pol["family"], << <<"spawn", "family">> >>)
        \o If(c.scandal, << <<"notify", "scandal">> >>)
        \o If(pol["investor"], << <<"spawn", "investor">> >>)
        \o If(c.aging, << <<"notify", "aging">> >>)

\* Budget and score of variant A with variant B's floor of 0 on the tick score.
budgetAndScoreAFloorZero(g2, c) ==
    [g2 EXCEPT !.budget = @ + calculateYearlyBudget(g2),
               !.score = @ + Max(0, newScoreA(c.pc, c.gc, c.hc, c.uc))]
\* Budget and score of a tick of variant A (script.js 246-257), on the state
\* g2 the clamped changes c left.
budgetAndScoreA(g2, c) ==
    [g2 EXCEPT !.budget = @ + calculateYearlyBudget(g2),
               !.score = @ + Max(0 - 1000, newScoreA(c.pc, c.gc, c.hc, c.uc))]

\* simulateYear of variant A with checkAchievements() called before the
\* random event instead of after it.
simulateYearAAchievementsBeforeEvent(gs, d) ==
    IF tickBlocked(gs)
    THEN [gs |-> gs, fx |-> <<>>, ended |-> <<>>]
    ELSE
      Call(LAMBDA c :
             Call(LAMBDA ach :
                    Call(LAMBDA ev :
                           Call(LAMBDA ended :
                                  [gs |-> IF Len(ended) > 0 THEN endGame(ev.gs) ELSE ev.gs,
                                   fx |-> ev.fx \o << <<"hud">> >>
                                          \o [i \in 1..Len(ended) |-> <<"gameover", ended[i]>>]
                                          \o << <<"weather">>, <<"summary">> >>,
                                   ended |-> ended],
                                checkGameState("A", ev.gs)),
                         rollEvent("A", ach.gs, d, policyEffectsA(gs.policies, c) \o ach.fx)),
                  checkAchievements(
                      budgetAndScoreA(
                          applyChangesA([gs EXCEPT !.year = @ + 1,
                                                   !.budget = @ - (IF c.scandal THEN 1000 ELSE 0)],
                                        c.pc, c.gc, c.hc, c.uc), c))),
           yearChangesA(gs, d))
\* simulateYear of variant A with the random event rolled before the budget
\* ledger and the score.
simulateYearAEventFirst(gs, d) ==
    IF tickBlocked(gs)
    THEN [gs |-> gs, fx |-> <<>>, ended |-> <<>>]
    ELSE
      Call(LAMBDA c :
             Call(LAMBDA g2 :
                    Call(LAMBDA ev :
                           Call(LAMBDA g3 : finishYear("A", [gs |-> g3, fx |-> ev.fx],
                                                       << <<"weather">>, <<"summary">> >>),
                                budgetAndScoreA(ev.gs, c)),
                         rollEvent("A", g2, d, policyEffectsA(gs.policies, c))),
                  applyChangesA([gs EXCEPT !.year = @ + 1,
                                           !.budget = @ - (IF c.scandal THEN 1000 ELSE 0)],
                                c.pc, c.gc, c.hc, c.uc)),
           yearChangesA(gs, d))
\* simulateYear() of variant A: the new gameState, the presentation calls
\* in call order, and the reasons handed to endGame.
simulateYearA(gs, d) ==
    IF tickBlocked(gs)
    THEN [gs |-> gs, fx |-> <<>>, ended |-> <<>>]
    ELSE
      Call(LAMBDA c :
             Call(LAMBDA g2 :
                    Call(LAMBDA g3 :
                           Call(LAMBDA ev : finishYear("A", ev, << <<"weather">>, <<"summary">> >>),
                                rollEvent("A", g3, d, policyEffectsA(gs.policies, c))),
                         budgetAndScoreA(g2, c)),
                  applyChangesA([gs EXCEPT !.year = @ + 1,
                                           !.budget = @ - (IF c.scandal THEN 1000 ELSE 0)],
                                c.pc, c.gc, c.hc, c.uc)),
           yearChangesA(gs, d))

\* totalImmigrants of variant B with variant A's natural decline under the
\* strict policy.
totalImmigrantsBStrictDeclines(pol) ==
    LET On(p) == IF pol[p] THEN getImmigrantCount("B", p) ELSE 0
        sum == On("openBorders") + On("skilledWorker") + On("refugee")
               + On("family") + On("investor") + On("strict")
    IN  IF pol["strict"] THEN floorHalf(sum) - 8 ELSE sum
\* ------------------------------------------------------- variant B: the tick
\* totalImmigrants of a tick of variant B (script.js 2589-2598).
totalImmigrantsB(pol) ==
    LET On(p) == IF pol[p] THEN getImmigrantCount("B", p) ELSE 0
        sum == On("openBorders") + On("skilledWorker") + On("refugee")
               + On("family") + On("investor") + On("strict")
    IN  IF pol["strict"] THEN floorHalf(sum) ELSE sum

\* floor(population/80 + gdp/80 + happiness*2.5 - unemployment*12), exact.
newScoreB(gs) ==
    (15 * (gs.population + gs.gdp) + 1500 * gs.happiness - 8 * gs.unemployment) \div 1200

\* The statistics a tick of variant B writes before its event roll
\* (script.js 2587-2643), on a running gameState.
yearStatisticsB(gs, d) ==
    LET pol == gs.policies
        diff == difficultySettings[gs.difficulty]
        On(p, x) == IF pol[p] THEN x ELSE 0
    IN  Call(LAMBDA totalImmigrants :
          Call(LAMBDA gdp :
            LET population == gs.population + totalImmigrants
                happinessChange == 0 - diff.happinessDrain
                                   + On("family", 6 * HScale) + On("refugee", 4 * HScale)
                                   - On("strict", 6 * HScale)
                                   - (IF gs.unemployment > 15 * UScale THEN 5 * HScale ELSE 0)
                                   + (IF gdp > 15000 THEN 4 * HScale ELSE 0)
                unempChange == totalImmigrants * diff.unempMultiplier
                               - On("skilledWorker", (3 * UScale) \div 2)
                               - On("investor", UScale)
                               + On("refugee", (7 * UScale) \div 10)
            IN  [gs EXCEPT !.year = @ + 1, !.population = population, !.gdp = gdp,
                           !.happiness = Max(0, Min(100 * HScale, @ + happinessChange)),
                           !.unemployment = Max(0, Min(40 * UScale, @ + unempChange))],
            \* gdpChange in tenths
            LET gdpChange10 == On("skilledWorker", 2500 * diff.gdpMultiplier)
                               + On("investor", 3500 * diff.gdpMultiplier)
                               + On("openBorders", IF d.luck THEN 12000 ELSE 0 - 6000)
                               - On("strict", 10000)
                               + ((gs.population + totalImmigrants) \div 80) * diff.gdpMultiplier
                               + 10 * d.noise
            IN  Max(1000, gs.gdp + (gdpChange10 \div 10))),
          totalImmigrantsB(pol))

\* The score assigned instead of accumulated.
budgetAndScoreBAssignsScore(g1) ==
    [g1 EXCEPT !.score = Max(0, newScoreB(g1)),
               !.budget = @ + ((2 * g1.gdp) \div 7)]
\* Score and budget of a tick of variant B (script.js 2636-2644).
budgetAndScoreB(g1) ==
    [g1 EXCEPT !.score = @ + Max(0, newScoreB(g1)),
               !.budget = @ + ((2 * g1.gdp) \div 7)]

simulateYearB(gs, d) ==
    IF tickBlocked(gs)
    THEN [gs |-> gs, fx |-> <<>>, ended |-> <<>>]
    ELSE
      Call(LAMBDA g1 :
             Call(LAMBDA g2 :
                    Call(LAMBDA ev : finishYear("B", ev, << <<"weather">> >>),
                         rollEvent("B", g2, d, <<>>)),
                  budgetAndScoreB(g1)),
           yearStatisticsB(gs, d))

\* The snapshots of gameState at the presentation calls of the policy section
\* of a tick of variant A: the year is incremented (script.js 132), the
\* scandal's fine is charged before its notification (script.js 207-209), and
\* the accumulated changes are not applied yet (script.js 241-244).
policySectionSnapshotsA(gs, c) ==
    LET calls == policyEffectsA(gs.policies, c)
        fined(i) == \E j \in 1..i : calls[j] = <<"notify", "scandal">>
    IN  {[gs |-> [gs EXCEPT !.year = @ + 1, !.budget = @ - (IF fined(s[1]) THEN 1000 ELSE 0)],
          made |-> s[2]] :
            s \in UNION {{<<i, k>> : k \in createPersonCalls("A", calls, i - 1)
                                            ..createPersonCalls("A", calls, i)} :
                          i \in 1..Len(calls)}}

\* The snapshots of gameState at the presentation calls that follow the
\* statistics of a tick: the event's notification, each showAchievement(),
\* updateHUD(), and the calls after checkGameState().  ev is the state and the
\* calls after the event roll, n the number of calls before it, r the
\* completed tick.
tailSnapshots(ev, n, r) ==
    LET new == NewAchievements(ev.gs)
        made == createPersonCalls("A", ev.fx, n)
    IN  (IF Len(ev.fx) > n THEN {[gs |-> ev.gs, ended |-> <<>>, made |-> made]} ELSE {})
        \cup {[gs |-> [ev.gs EXCEPT !.achievements = @ \cup {new[j] : j \in 1..k}],
               ended |-> <<>>, made |-> made] : k \in 1..Len(new)}
        \cup {[gs |-> checkAchievements(ev.gs).gs, ended |-> <<>>, made |-> made],
              [gs |-> r.gs, ended |-> r.ended, made |-> made]}

\* simulateYear() left by an exception of one of its presentation calls
\* (nothing in script.js catches it): the states gameState can be left in,
\* with the reasons handed to endGame and the createPerson calls made before
\* the exception.
simulateYearThrows(v, gs, d) ==
    IF tickBlocked(gs)
    THEN {}
    ELSE IF v = "A"
    THEN Call(LAMBDA c :
           Call(LAMBDA g3 :
             Call(LAMBDA ev :
               Call(LAMBDA r :
                      {[gs |-> s.gs, ended |-> <<>>, made |-> s.made] :
                          s \in policySectionSnapshotsA(gs, c)}
                      \cup tailSnapshots(ev, Len(policyEffectsA(gs.policies, c)), r),
                    finishYear("A", ev, << <<"weather">>, <<"summary">> >>)),
               rollEvent("A", g3, d, policyEffectsA(gs.policies, c))),
             budgetAndScoreA(applyChangesA([gs EXCEPT !.year = @ + 1,
                                                      !.budget = @ - (IF c.scandal THEN 1000 ELSE 0)],
                                           c.pc, c.gc, c.hc, c.uc), c)),
           yearChangesA(gs, d))
    ELSE Call(LAMBDA g2 :
           Call(LAMBDA ev :
             Call(LAMBDA r : tailSnapshots(ev, 0, r),
                  finishYear("B", ev, << <<"weather">> >>)),
             rollEvent("B", g2, d, <<>>)),
           budgetAndScoreB(yearStatisticsB(gs, d)))
simulateYear(v, gs, d) == IF v = "A" THEN simulateYearA(gs, d) ELSE simulateYearB(gs, d)

\* startGame that begins a fresh run: year and statistics back to their
\* initial values.
startGameResetsStatistics(v, gs) ==
    [gs EXCEPT !.started = TRUE, !.paused = FALSE,
               !.year = INITIAL_YEAR, !.population = INITIAL_POPULATION,
               !.gdp = INITIAL_GDP, !.happiness = INITIAL_HAPPINESS * HScale,
               !.unemployment = INITIAL_UNEMPLOYMENT * UScale, !.score = 0,
               !.budget = difficultySettings[gs.difficulty].budget + INITIAL_BUDGET(v)]
\* -------------------------------------------------------- game management
\* startGame that also clears the policy switches.
startGameClearsPolicies(v, gs) ==
    [gs EXCEPT !.started = TRUE, !.paused = FALSE, !.policies = NoPolicies,
               !.budget = difficultySettings[gs.difficulty].budget + INITIAL_BUDGET(v)]

startGame(v, gs) ==
    [gs EXCEPT !.started = TRUE, !.paused = FALSE,
               !.budget = difficultySettings[gs.difficulty].budget + INITIAL_BUDGET(v)]

ElapsedCap == SIMULATION_INTERVAL + SIMULATION_INTERVAL

\* ------------------------------------------------ late-game starting states
\* States deep in a session are produced by replaying the handlers from the
\* constructed state along a script: press START, then for each phase toggle
\* the listed policies in turn and let the given number of years pass (a phase may repeat its toggles), each
\* year a quiet tick (noise 0, no chance fires, no event).
quietYear(v, gs) == simulateYear(v, gs, NoDraw).gs

\* The replay carries w = [gs, people]: gameState and the size of the scene
\* of a page whose model is in the cache.
replayed(v, w, r) ==
    [gs |-> r.gs,
     people |-> sceneAfter(v, [people |-> w.people, loading |-> 0, cached |-> TRUE], r.fx).people]

\* n quiet years, split in halves to keep the evaluation shallow.
RECURSIVE quietYears(_, _, _)
quietYears(v, w, n) ==
    IF n = 0 \/ ~w.gs.started THEN w
    ELSE IF n = 1 THEN Call(LAMBDA r : replayed(v, w, r), simulateYear(v, w.gs, NoDraw))
    ELSE Call(LAMBDA h : quietYears(v, h, n - (n \div 2)), quietYears(v, w, n \div 2))

RECURSIVE toggleAll(_, _, _, _)
toggleAll(v, w, ps, i) ==
    IF i > Len(ps) \/ ~w.gs.started THEN w
    ELSE Call(LAMBDA h : toggleAll(v, h, ps, i + 1),
              Call(LAMBDA r : replayed(v, w, r), togglePolicy(v, w.gs, ps[i])))

\* The toggle sequence ps applied n times over.
RECURSIVE repeatToggles(_, _, _, _)
repeatToggles(v, w, ps, n) ==
    IF n = 0 \/ ~w.gs.started THEN w
    ELSE IF n = 1 THEN toggleAll(v, w, ps, 1)
    ELSE Call(LAMBDA h : repeatToggles(v, h, ps, n - (n \div 2)),
              repeatToggles(v, w, ps, n \div 2))

RECURSIVE runPhases(_, _, _, _)
runPhases(v, w, phases, i) ==
    IF i > Len(phases) \/ ~w.gs.started THEN w
    ELSE Call(LAMBDA toggled :
                Call(LAMBDA h : runPhases(v, h, phases, i + 1),
                     quietYears(v, toggled, phases[i].years)),
              repeatToggles(v, w, phases[i].toggles, phases[i].times))

runScript(v, dif, phases) ==
    Call(LAMBDA w : runPhases(v, w, phases, 1),
         [gs |-> startGame(v, [InitialGameState(v) EXCEPT !.difficulty = dif]),
          people |-> INITIAL_CITIZENS(v)])

\* The scripts: each is replayed with its last phase lasting 0..MaxReplay
\* years more than written, which walks the session up to a terminal condition.
\*   A1 open borders + refugees on medium: debt grows towards bankruptcy
\*   A2 open borders + skilled + investor on hard: happiness runs out
\*   A3 twenty prosperous years, then open borders + refugees: unemployment
\*   A4 strict control alone: the population shrinks towards the crisis level
\*   A5 the refugee programme switched on and off until the budget is spent
\*   B1 open borders + refugees + family on hard: unemployment
\*   B2 strict control on hard: happiness runs out
\*   B3 the refugee programme switched on and off until the budget is spent
Scripts(v) ==
    IF v = "A"
    THEN {[dif |-> "medium", phases |-> << [toggles |-> <<"openBorders", "refugee">>, times |-> 1, years |-> 2] >>],
          [dif |-> "hard", phases |-> << [toggles |-> <<"openBorders", "skilledWorker", "investor">>, times |-> 1, years |-> 0] >>],
          [dif |-> "medium", phases |-> << [toggles |-> <<"skilledWorker", "investor", "family", "strict">>, times |-> 1, years |-> 20],
                                           [toggles |-> <<"skilledWorker", "investor", "openBorders", "refugee">>, times |-> 1, years |-> 11] >>],
          [dif |-> "hard", phases |-> << [toggles |-> <<"openBorders", "skilledWorker", "investor">>, times |-> 1, years |-> 1] >>],
          [dif |-> "medium", phases |-> << [toggles |-> <<"strict">>, times |-> 1, years |-> 93] >>],
          [dif |-> "medium", phases |-> << [toggles |-> <<"refugee", "refugee">>, times |-> 16, years |-> 0] >>]}
    ELSE {[dif |-> "hard", phases |-> << [toggles |-> <<"openBorders", "refugee", "family">>, times |-> 1, years |-> 19] >>],
          [dif |-> "hard", phases |-> << [toggles |-> <<"strict">>, times |-> 1, years |-> 10] >>],
          [dif |-> "hard", phases |-> << [toggles |-> <<"strict">>, times |-> 1, years |-> 11] >>],
          [dif |-> "hard", phases |-> << [toggles |-> <<"refugee", "refugee">>, times |-> 142, years |-> 0] >>]}

longer(phases, k) == [phases EXCEPT ![Len(phases)].years = @ + k]

\* The replayed states in which the session is still running.
LateStates(v) ==
    {w \in {runScript(v, s.dif, longer(s.phases, k)) : s \in Scripts(v), k \in 0..MaxReplay} :
        w.gs.started}

\* ----------------------------------------------------------------- actions
\* The page once its initial population stands in the scene.
Init ==
    /\ variant \in Variants
    /\ gameState = InitialGameState(variant)
    /\ elapsed = 0
    /\ menu = "main"
    /\ nTicks = 0
    /\ nToggles = 0
    /\ people = INITIAL_CITIZENS(variant)
    /\ loading = 0
    /\ cached = TRUE

\* The scene a handler leaves that made the presentation calls fx.
SceneStep(fx) ==
    \E sc \in {sceneAfter(variant, [people |-> people, loading |-> loading, cached |-> cached], fx)} :
        /\ people' = sc.people
        /\ loading' = sc.loading
        /\ cached' = sc.cached

\* Wall-clock time passes between two handlers.
Advance ==
    /\ nTicks < MaxTicks \/ menu # "main"
    /\ elapsed < ElapsedCap
    /\ elapsed' = Min(elapsed + SIMULATION_INTERVAL, ElapsedCap)
    /\ UNCHANGED <<variant, gameState, menu, nTicks, nToggles, people, loading, cached>>

\* One animation frame in which the yearly simulation is due:
\* animate() calls simulateYear() and resets lastSimulationTime.
\* Variant B returns from the frame before that while paused.
Animate ==
    /\ gameState.started
    /\ elapsed > SIMULATION_INTERVAL
    /\ variant = "B" => ~gameState.paused
    /\ nTicks < MaxTicks
    /\ \E d \in TickDraws(variant, gameState) :
          \E r \in {simulateYear(variant, gameState, d)} :
              /\ gameState' = r.gs
              /\ menu' = IF Len(r.ended) > 0 THEN r.ended[Len(r.ended)] ELSE menu
              /\ SceneStep(r.fx)
    /\ nTicks' = IF gameState'.year # gameState.year THEN nTicks + 1 ELSE nTicks
    /\ elapsed' = 0
    /\ UNCHANGED <<variant, nToggles>>

\* A click on a policy card or a digit key 1-6: both call togglePolicy
\* only if the game is started.  Explored while a tick is left to run or the
\* game is over.
PolicyInput ==
    /\ nTicks < MaxTicks \/ menu # "main"
    /\ nToggles < MaxToggles
    /\ \E p \in Policies :
          LET r == IF gameState.started
                   THEN togglePolicy(variant, gameState, p)
                   ELSE [gs |-> gameState, fx |-> <<>>]
          IN  gameState' = r.gs /\ SceneStep(r.fx)
    /\ nToggles' = IF gameState'.policies # gameState.policies THEN nToggles + 1 ELSE nToggles
    /\ UNCHANGED <<variant, elapsed, menu, nTicks>>

\* Key P.
KeyP ==
    /\ gameState' = [gameState EXCEPT !.paused = ~@]
    /\ UNCHANGED <<variant, elapsed, menu, nTicks, nToggles, people, loading, cached>>

\* A click on a difficulty button of the main menu, which the Tab key
\* (toggleMenu) shows at any time, started or not.  The difficulty is read by
\* ticks and by startGame only, so it is explored while a tick is left to run.
SetDifficulty ==
    /\ menu = "main"
    /\ nTicks < MaxTicks
    /\ \E dif \in Difficulties :
          /\ dif # gameState.difficulty
          /\ gameState' = [gameState EXCEPT !.difficulty = dif]
    /\ UNCHANGED <<variant, elapsed, menu, nTicks, nToggles, people, loading, cached>>

\* The START GAME button of the main menu; endGame replaces the menu's
\* content by the game-over panel, whose only button is RESTART GAME.
StartGame ==
    /\ menu = "main"
    /\ gameState' = startGame(variant, gameState)
    /\ UNCHANGED <<variant, elapsed, menu, nTicks, nToggles, people, loading, cached>>

\* restartGame(): location.reload() rebuilds the page.
RestartGame ==
    /\ menu # "main"
    /\ gameState' = InitialGameState(variant)
    /\ elapsed' = 0
    /\ menu' = "main"
    /\ people' = INITIAL_CITIZENS(variant)
    /\ loading' = 0
    /\ cached' = TRUE
    /\ UNCHANGED <<variant, nTicks, nToggles>>

Next ==
    \/ Advance
    \/ Animate
    \/ PolicyInput
    \/ KeyP
    \/ SetDifficulty
    \/ StartGame
    \/ RestartGame

Spec == Init /\ [][Next]_vars

\* A session picked up late: the constructed state or a replayed one, with
\* one tick of the tick bound left.
InitLate ==
    /\ variant \in Variants
    /\ \/ gameState = InitialGameState(variant) /\ people = INITIAL_CITIZENS(variant)
       \/ \E w \in LateStates(variant) : gameState = w.gs /\ people = w.people
    /\ elapsed = 0
    /\ menu = "main"
    /\ nTicks = MaxTicks - 1
    /\ nToggles = 0
    /\ loading = 0
    /\ cached = TRUE

SpecLate == InitLate /\ [][Next]_vars

\* One animation frame in which the yearly simulation is due and one of its
\* presentation calls throws: the exception leaves simulateYear() and
\* animate(), so lastSimulationTime keeps its value (script.js 1617-1620);
\* the next frame was requested before (script.js 1559).
AnimateThrows ==
    /\ gameState.started
    /\ elapsed > SIMULATION_INTERVAL
    /\ variant = "B" => ~gameState.paused
    /\ nTicks < MaxTicks
    /\ \E d \in TickDraws(variant, gameState) :
          \E r \in simulateYearThrows(variant, gameState, d) :
              /\ gameState' = r.gs
              /\ menu' = IF Len(r.ended) > 0 THEN r.ended[Len(r.ended)] ELSE menu
              /\ \E sc \in {createPersons(variant, [people |-> people, loading |-> loading,
                                                    cached |-> cached], r.made)} :
                    people' = sc.people /\ loading' = sc.loading /\ cached' = sc.cached
    /\ nTicks' = nTicks + 1
    /\ UNCHANGED <<variant, elapsed, nToggles>>

NextFaulty ==
    \/ Next
    \/ AnimateThrows

\* The late session in which presentation calls may throw.
SpecFaulty == InitLate /\ [][NextFaulty]_vars
\* --------------------------------------------------- the scene's model loads
\* A model load of variant B calls back with the model: the promise of its
\* createPerson call is resolved and the callback registers the person
\* (script.js 2071-2086); the model is in the cache from then on (2148).
LoadSucceeds ==
    /\ loading > 0
    /\ loading' = loading - 1
    /\ people' = people + 1
    /\ cached' = TRUE
    /\ UNCHANGED <<variant, gameState, elapsed, menu, nTicks, nToggles>>

\* A model load calls back with an error: the promise is rejected and the
\* catch handler registers the person with its placeholder (2087-2097).
LoadFails ==
    /\ loading > 0
    /\ loading' = loading - 1
    /\ people' = people + 1
    /\ UNCHANGED <<variant, gameState, elapsed, menu, nTicks, nToggles, cached>>

\* Sessions of variant B that filled the scene: the investor programme
\* switched on, then the refugee programme switched on and off.
CrowdScripts ==
    {[dif |-> "medium",
      phases |-> << [toggles |-> <<"investor">>, times |-> 1, years |-> 0],
                    [toggles |-> <<"refugee", "refugee">>, times |-> 21, years |-> 0] >>]}

CrowdStates ==
    {w \in {runScript("B", s.dif, longer(s.phases, k)) : s \in CrowdScripts, k \in 0..MaxReplay} :
        w.gs.started}

\* A page of variant B whose loads are followed one by one: the page as
\* constructed, with the loads of the initial population in flight, or a
\* session picked up late, on a page that has the model in its cache or on
\* one whose loads have all failed.
InitScene ==
    /\ variant = "B"
    /\ \/ /\ gameState = InitialGameState(variant)
          /\ people = 0
          /\ loading = INITIAL_CITIZENS(variant)
          /\ cached = FALSE
       \/ /\ \E w \in LateStates(variant) \cup CrowdStates :
                gameState = w.gs /\ people = w.people
          /\ loading = 0
          /\ cached \in BOOLEAN
    /\ elapsed = 0
    /\ menu = "main"
    /\ nTicks = MaxTicks - 1
    /\ nToggles = 0

NextScene ==
    \/ Next
    \/ LoadSucceeds
    \/ LoadFails

SpecScene == InitScene /\ [][NextScene]_vars
\* ------------------------------------------------------ the untouched game
\* The game started from the constructed state on a chosen difficulty and
\* left alone: no pause, no policy, and no tick's event roll triggers an
\* event.  Time passes and animate() runs the yearly simulation whenever it
\* is due; requestAnimationFrame keeps the frames coming, hence the fairness.
\* The gdp noise is drawn freely in the first MaxNoisyTicks ticks and stays
\* afterwards at the extreme on whose side the gdp has ended up.
SettledNoise(gs) == IF gs.gdp >= INITIAL_GDP THEN 399 ELSE 0 - 400

InitQuiet ==
    /\ variant = "A"
    /\ \E dif \in Difficulties :
          gameState = startGame(variant, [InitialGameState(variant) EXCEPT !.difficulty = dif])
    /\ elapsed = 0
    /\ menu = "main"
    /\ nTicks = 0
    /\ nToggles = 0
    /\ people = INITIAL_CITIZENS(variant)
    /\ loading = 0
    /\ cached = TRUE

QuietAdvance ==
    /\ elapsed < ElapsedCap
    /\ elapsed' = Min(elapsed + SIMULATION_INTERVAL, ElapsedCap)
    /\ UNCHANGED <<variant, gameState, menu, nTicks, nToggles, people, loading, cached>>

QuietAnimate ==
    /\ gameState.started
    /\ elapsed > SIMULATION_INTERVAL
    /\ \E d \in TickDraws(variant, gameState) :
          /\ d.roll >= eventChance(variant)
          /\ nTicks >= MaxNoisyTicks => d.noise = SettledNoise(gameState)
          /\ \E r \in {simulateYear(variant, gameState, d)} :
                /\ gameState' = r.gs
                /\ menu' = IF Len(r.ended) > 0 THEN r.ended[Len(r.ended)] ELSE menu
                /\ SceneStep(r.fx)
    /\ nTicks' = nTicks + 1
    /\ elapsed' = 0
    /\ UNCHANGED <<variant, nToggles>>

NextQuiet ==
    \/ QuietAdvance
    \/ QuietAnimate

SpecQuiet == InitQuiet /\ [][NextQuiet]_vars /\ WF_vars(NextQuiet)
\* ================================================================== claims
Statistics(gs) ==
    <<gs.year, gs.population, gs.gdp, gs.happiness, gs.unemployment, gs.score>>

\* What the game-over state keeps frozen.
Frozen(gs) ==
    <<gs.year, gs.population, gs.gdp, gs.happiness, gs.unemployment, gs.budget,
      gs.score, gs.policies, gs.achievements>>

\* A step that is a completed tick, and a step that is a page reload.
TickStep == gameState'.year = gameState.year + 1
RestartStep == menu # "main" /\ menu' = "main"

\* A step that is the frame in which animate() calls simulateYear().
TimerStep == elapsed > SIMULATION_INTERVAL /\ elapsed' = 0 /\ ~RestartStep

\* The terminal conditions in the documented priority order.
TerminalReasons(v, gs) ==
    SelectSeq(<<"unhappiness", "unemployment", "bankruptcy", "population">>,
              LAMBDA r : CASE r = "unhappiness"  -> gs.happiness <= 0
                           [] r = "unemployment" -> gs.unemployment >= 40 * UScale
                           [] r = "bankruptcy"   -> gs.budget < 0 - 15000
                           [] r = "population"   -> gs.population <= PopulationCrisisLevel(v))

Running(gs) == gs.started /\ ~gs.paused

\* animate()'s test for running the yearly simulation in this frame.
TickDue == gameState.started /\ elapsed > SIMULATION_INTERVAL

\* C1: after every completed tick (with or without a random event), in both
\* variants, 0 <= happiness <= 100, 0 <= unemployment <= 40, population >= 100
\* and gdp >= 1000.  Statistics change in ticks only, so once a tick has run
\* the current statistics are those the latest tick left.
C1_ClampedAfterEveryTick ==
    gameState.year > INITIAL_YEAR =>
        /\ 0 <= gameState.happiness /\ gameState.happiness <= 100 * HScale
        /\ 0 <= gameState.unemployment /\ gameState.unemployment <= 40 * UScale
        /\ gameState.population >= 100
        /\ gameState.gdp >= 1000

\* C2: whenever a tick is due, whatever it draws, its terminal check calls
\* endGame at most once, with the first condition that holds in the order happiness, unemployment,
\* budget, population evaluated on the statistics the tick ends with; if none
\* holds, endGame is not called and the game stays started.
C2_FirstTerminalReasonWins ==
    []((Running(gameState) /\ TickDue) =>
              \A d \in TickDraws(variant, gameState) :
                  LET r == simulateYear(variant, gameState, d)
                      due == TerminalReasons(variant, r.gs)
                  IN  /\ Len(r.ended) <= 1
                      /\ IF Len(due) = 0
                         THEN r.ended = <<>> /\ r.gs.started
                         ELSE r.ended = <<due[1]>> /\ ~r.gs.started)

\* a game that a tick has ended while two terminal conditions held at once
C2_Witness ==
    /\ menu # "main"
    /\ Len(TerminalReasons(variant, gameState)) >= 2
    /\ menu = TerminalReasons(variant, gameState)[1]

\* C3: once endGame has run, no step other than the reload changes year,
\* population, gdp, happiness, unemployment, budget, score, policies or
\* achievements: timer frames, key P and policy inputs leave them frozen.
C3_FrozenAfterGameOver ==
    [][(menu # "main" /\ ~RestartStep) => Frozen(gameState') = Frozen(gameState)]_vars

\* the game is over, key P has cleared the pause flag and the timer is due
C3_Witness ==
    /\ menu # "main"
    /\ ~gameState.paused
    /\ elapsed > SIMULATION_INTERVAL

\* C4: a tick that ends with any terminal condition true leaves
\* started = false and paused = true.
C4_TerminalTickStopsGame ==
    [][(TickStep /\ Len(TerminalReasons(variant, gameState')) > 0)
          => (~gameState'.started /\ gameState'.paused)]_vars

\* a tick has just ended the game
C4_Witness ==
    /\ menu # "main"
    /\ nTicks = MaxTicks
    /\ elapsed = 0
    /\ ~gameState.started /\ gameState.paused

\* C5: while the game runs, togglePolicy on an inactive policy is rejected
\* exactly when the policy's cost exceeds the budget (for the investor policy,
\* cost -1500, when budget < -1500); a rejected call leaves gameState as it
\* was and makes a single presentation call, the notification.
C5_RejectedIffUnaffordable ==
    Running(gameState) =>
        \A p \in Policies :
            ~gameState.policies[p] =>
                LET r == togglePolicy(variant, gameState, p)
                IN  IF policyCosts(variant)[p] > gameState.budget
                    THEN /\ r.gs = gameState
                         /\ Len(r.fx) = 1 /\ r.fx[1][1] = "notify"
                    ELSE r.gs.policies[p]

\* variant A is running in debt below -1500 with the investor policy off, and
\* the (rejected) investor toggle is the only thing the policy budget allows
C5_Witness ==
    /\ variant = "A"
    /\ Running(gameState)
    /\ ~gameState.policies["investor"]
    /\ gameState.budget < 0 - 1500
    /\ gameState.year > INITIAL_YEAR

\* C6: while the game is not started or is paused, togglePolicy changes
\* nothing in gameState, whichever policy it is called with.
C6_ToggleNoOpWhenNotRunning ==
    ~Running(gameState) =>
        \A p \in Policies : togglePolicy(variant, gameState, p).gs = gameState

\* a started game, paused with key P, in which every policy is affordable
C6_Witness ==
    /\ gameState.started
    /\ gameState.paused
    /\ menu = "main"
    /\ \A p \in Policies : policyCosts(variant)[p] <= gameState.budget

\* C7: while the game runs, an accepted toggle that activates p lowers the
\* budget by exactly cost(p) (the investor's negative cost raises it by 1500)
\* and one that deactivates p leaves the budget as it is; neither changes
\* year, population, gdp, happiness, unemployment or score.
C7_ToggleBudgetEffect ==
    [](Running(gameState) =>
              \A p \in Policies :
                  LET r == togglePolicy(variant, gameState, p)
                  IN  /\ Statistics(r.gs) = Statistics(gameState)
                      /\ (gameState.policies[p] => r.gs.budget = gameState.budget)
                      /\ (~gameState.policies[p] /\ r.gs.policies[p]
                              => r.gs.budget = gameState.budget - policyCosts(variant)[p]))

\* the investor policy of variant A has just been switched on from the
\* medium starting budget: 15000 became 16500
C7_Witness ==
    /\ variant = "A"
    /\ nToggles = 1
    /\ gameState.policies["investor"]
    /\ gameState.year = INITIAL_YEAR
    /\ gameState.budget = 15000 + 1500

\* C8: while the game runs, for every inactive affordable policy p, two
\* togglePolicy(p) calls in a row give back the policy switches as they were
\* and leave the budget at the earlier budget minus cost(p).
C8_DoubleToggle ==
    Running(gameState) =>
        \A p \in Policies :
            (~gameState.policies[p] /\ policyCosts(variant)[p] <= gameState.budget) =>
                LET once == togglePolicy(variant, gameState, p).gs
                    twice == togglePolicy(variant, once, p).gs
                IN  /\ once.policies[p]
                    /\ twice.policies = gameState.policies
                    /\ twice.budget = gameState.budget - policyCosts(variant)[p]

\* variant A after sixteen on/off rounds of the refugee policy from the
\* medium starting budget: all switches off again, 15000 - 16 * 900 left
C8_Witness ==
    /\ variant = "A"
    /\ Running(gameState)
    /\ gameState.policies = NoPolicies
    /\ gameState.refugeeProgramStarted = INITIAL_YEAR
    /\ gameState.budget = 15000 - 16 * 900

\* C9: the policy switches change only in a step that is an accepted
\* togglePolicy call (or the page reload): ticks with or without events,
\* key P, startGame and endGame leave every switch as it was.
C9_PoliciesChangeOnlyByToggle ==
    [][gameState'.policies # gameState.policies =>
          \/ RestartStep
          \/ /\ Running(gameState)
             /\ \E p \in Policies :
                   /\ ~toggleRejected(variant, gameState, p)
                   /\ gameState' = togglePolicy(variant, gameState, p).gs]_vars

\* a policy was switched on, a tick ran after it, and the game still runs
\* with a switch on
C9_Witness ==
    /\ nToggles = 1
    /\ nTicks = 1
    /\ \E p \in Policies : gameState.policies[p]
    /\ gameState.year = INITIAL_YEAR + 1
    /\ gameState.started

\* C10: whenever the yearly timer is due, simulateYear called while the game
\* is not started or is paused returns gameState unchanged, whatever the
\* draws; every frame in which animate calls it on a running game raises year
\* by exactly 1; and no step taken while paused changes year (the page reload
\* aside).
C10_YearAdvancesOnlyWhenRunning ==
    /\ []((elapsed > SIMULATION_INTERVAL /\ ~Running(gameState)) =>
             \A d \in TickDraws(variant, gameState) :
                simulateYear(variant, gameState, d).gs = gameState)
    /\ [][/\ (TimerStep /\ Running(gameState)) => gameState'.year = gameState.year + 1
          /\ (gameState.paused /\ ~RestartStep) => gameState'.year = gameState.year]_vars

\* a started game is paused while the yearly timer is due
C10_Witness ==
    /\ gameState.started
    /\ gameState.paused
    /\ elapsed > SIMULATION_INTERVAL
    /\ nTicks < MaxTicks

\* C11: in every step other than the page reload (tick, toggle, key P,
\* difficulty click, startGame), the set of unlocked achievements of the new
\* state contains the set of the old state.
C11_AchievementsOnlyGrow ==
    [][~RestartStep => gameState.achievements \subseteq gameState'.achievements]_vars

\* after the tick that ran here, an unlocked achievement is still in the set
\* although its condition no longer holds
C11_Witness ==
    /\ nTicks = MaxTicks
    /\ elapsed = 0
    /\ \E id \in gameState.achievements : ~AchievementHolds(gameState, id)

\* The number of showAchievement calls for id among the presentation calls fx.
Unlocks(fx, id) == Cardinality({i \in 1..Len(fx) : fx[i] = <<"achievement", id>>})

\* C12: once a tick has run, every achievement whose condition holds is in
\* the unlocked set; and every due tick of a running game, whatever the draws,
\* calls showAchievement exactly once for each id that is not yet unlocked and
\* whose condition holds at the end of the tick, and not at all for any other
\* id.  So an id is announced on the first tick at whose end its condition
\* holds and on no later tick.
C12_AchievementAnnouncedOnce ==
    [](/\ gameState.year > INITIAL_YEAR =>
             \A id \in AchievementIds :
                AchievementHolds(gameState, id) => id \in gameState.achievements
       /\ (Running(gameState) /\ TickDue) =>
             \A d \in TickDraws(variant, gameState) :
                \E r \in {simulateYear(variant, gameState, d)} :
                   \E shown \in {SelectSeq(r.fx, LAMBDA c : c[1] = "achievement")} :
                      \A id \in AchievementIds :
                         /\ Unlocks(shown, id) =
                               (IF id \notin gameState.achievements /\ AchievementHolds(r.gs, id)
                                THEN 1 ELSE 0)
                         /\ AchievementHolds(r.gs, id) => id \in r.gs.achievements)

\* a tick is due that leaves one unlocked achievement's condition true (no
\* second announcement) and unlocks another one
C12_Witness ==
    /\ Running(gameState) /\ TickDue
    /\ gameState.year > INITIAL_YEAR
    /\ \E d \in TickDraws(variant, gameState) :
          \E r \in {simulateYear(variant, gameState, d)} :
             /\ \E id \in gameState.achievements : AchievementHolds(r.gs, id)
             /\ \E id \in AchievementIds : Unlocks(r.fx, id) = 1

\* C13: in every due tick of a running game, whatever the draws, a call of
\* endGame is the last presentation call of the tick: no weather update, year
\* summary or other call follows it.
C13_NothingAfterGameOver ==
    (Running(gameState) /\ TickDue) =>
        \A d \in TickDraws(variant, gameState) :
            \E r \in {simulateYear(variant, gameState, d)} :
                \A i \in 1..Len(r.fx) : r.fx[i][1] = "gameover" => i = Len(r.fx)

\* What a tick writes of the nation's state: the year, the statistics, the
\* budget and the score.
NationState(gs) ==
    <<gs.year, gs.population, gs.gdp, gs.happiness, gs.unemployment, gs.budget, gs.score>>

\* C14: a tick is all-or-nothing with respect to the nation's state, even when
\* a presentation call inside the tick (spawnImmigrants, showNotification,
\* updateHUD, updateWeather) fails: a frame that advances the year leaves the
\* year, the statistics, the budget and the score as one completed tick does.
C14_TickAllOrNothing ==
    [][(gameState'.year # gameState.year /\ ~RestartStep) =>
          \E d \in TickDraws(variant, gameState) :
             NationState(gameState') = NationState(simulateYear(variant, gameState, d).gs)]_vars

\* C15: while the game is started the difficulty never changes; it can be set
\* only before startGame.
C15_DifficultyFixedWhileStarted ==
    [][gameState.started => gameState'.difficulty = gameState.difficulty]_vars

\* C16: a tick that finishes with budget < -15000 while happiness > 0 and
\* unemployment < 40 ends the game in that tick with the bankruptcy reason and
\* started = false; a tick that finishes with budget >= -15000 never reports
\* bankruptcy.
C16_BankruptcyThreshold ==
    [][(TimerStep /\ Running(gameState)) =>
          /\ (/\ gameState'.budget < 0 - 15000
              /\ gameState'.happiness > 0
              /\ gameState'.unemployment < 40 * UScale)
                => (menu' = "bankruptcy" /\ ~gameState'.started)
          /\ gameState'.budget >= 0 - 15000 =>
                menu' # "bankruptcy"]_vars

\* A running state whose next tick finishes below the threshold with the other
\* statistics in range, and ends in bankruptcy.
C16_Witness ==
    /\ Running(gameState) /\ TickDue
    /\ \E d \in TickDraws(variant, gameState) :
          \E r \in {simulateYear(variant, gameState, d)} :
              /\ r.gs.budget < 0 - 15000 /\ r.gs.happiness > 0
              /\ r.gs.unemployment < 40 * UScale
              /\ r.ended = <<"bankruptcy">> /\ ~r.gs.started

\* The tick's accumulated happiness delta takes the pre-tick happiness to 0 or
\* below: the clamped application (script.js 243, variant B 2623-2625) writes 0.
HappinessExhausted(v, gs, d) ==
    IF v = "A" THEN gs.happiness + yearChangesA(gs, d).hc <= 0
    ELSE yearStatisticsB(gs, d).happiness = 0

\* C17: for any tick in which the pre-tick happiness plus the tick's
\* accumulated happiness delta is <= 0, happiness at the end of that tick is
\* exactly 0 (never negative) and the game ends with the unhappiness reason on
\* that same tick.
C17_ExhaustedHappinessEndsGame ==
    (Running(gameState) /\ TickDue) =>
        \A d \in TickDraws(variant, gameState) :
            HappinessExhausted(variant, gameState, d) =>
                \E r \in {simulateYear(variant, gameState, d)} :
                    /\ r.gs.happiness = 0
                    /\ r.ended = <<"unhappiness">>

\* The people the active policies bring in one tick, after the strict policy's
\* halving and before its natural decline.
immigrantContribution(v, gs, d) ==
    IF v = "A" THEN yearChangesA(gs, d).immigrants ELSE totalImmigrantsB(gs.policies)

\* gameState with the policies of S active and no other.
withPolicies(gs, S) == [gs EXCEPT !.policies = [p \in Policies |-> p \in S]]

\* The draws the immigrant contribution of a tick depends on.
ImmigrantDraws == {[NoDraw EXCEPT !.leave = l, !.boom = b] : l, b \in BOOLEAN}

\* C18 as stated: for every set S of active non-strict policies, with the
\* random draws held equal, the immigrant contribution of one tick with S plus
\* strict is exactly half of that with S alone, with no rounding loss.
C18_StrictHalvesExactly ==
    (Running(gameState) /\ TickDue) =>
        \A S \in SUBSET (Policies \ {"strict"}) :
            \A d \in ImmigrantDraws :
                2 * immigrantContribution(variant, withPolicies(gameState, S \cup {"strict"}), d)
                    = immigrantContribution(variant, withPolicies(gameState, S), d)

\* C18 amended: with S plus strict the contribution is half of that with S
\* alone rounded down to whole people, so exactly half when the latter is even
\* and half a person less than half when it is odd.
C18_StrictHalvesRoundedDown ==
    []((Running(gameState) /\ TickDue) =>
              \A S \in SUBSET (Policies \ {"strict"}) :
                  \A d \in ImmigrantDraws :
                      \E with \in {immigrantContribution(variant, withPolicies(gameState, S \cup {"strict"}), d)} :
                          \E without \in {immigrantContribution(variant, withPolicies(gameState, S), d)} :
                              /\ without % 2 = 0 => 2 * with = without
                              /\ without % 2 = 1 => 2 * with = without - 1)

\* A tick is due with strict active next to policies whose contribution is odd.
C18_Witness ==
    /\ Running(gameState) /\ TickDue
    /\ gameState.policies["strict"]
    /\ \E d \in ImmigrantDraws :
          \E S \in {{p \in Policies \ {"strict"} : gameState.policies[p]}} :
              /\ immigrantContribution(variant, withPolicies(gameState, S), d) % 2 = 1
              /\ 2 * immigrantContribution(variant, gameState, d)
                    = immigrantContribution(variant, withPolicies(gameState, S), d) - 1

\* The defaults on medium difficulty, started, with no policy active.
DefaultRun(v) == startGame(v, InitialGameState(v))

\* C19: from the defaults on medium difficulty with no policy active and no
\* random event triggered, one tick sets year to 2025 and changes happiness by
\* the drain (-2) plus the threshold terms whose conditions hold: happiness is
\* 68 in variant A (no threshold term) and 72 in variant B (+4, gdp > 15000).
C19_FirstQuietTick ==
    (gameState = DefaultRun(variant) /\ TickDue) =>
        \A d \in TickDraws(variant, gameState) :
            d.roll >= eventChance(variant) =>
                \E r \in {simulateYear(variant, gameState, d)} :
                    /\ r.gs.year = 2025
                    /\ r.gs.happiness = (IF variant = "A" THEN 68 ELSE 72) * HScale

\* The state after that tick.
C19_Witness ==
    /\ nTicks = MaxTicks
    /\ elapsed = 0
    /\ gameState.year = 2025
    /\ \E d \in TickDraws(variant, DefaultRun(variant)) :
          /\ d.roll >= eventChance(variant)
          /\ gameState = simulateYear(variant, DefaultRun(variant), d).gs

\* The notification each event's effect shows.
eventNotice(e) ==
    CASE e = "Economic Boom" -> "boom"
      [] e = "Natural Disaster" -> "disaster"
      [] e = "Tech Breakthrough" -> "tech"
      [] e = "Cultural Festival" -> "festival"
      [] e = "Trade War" -> "tradeWar"
      [] OTHER -> "none"

\* The event notifications among the calls of a tick, in call order.
eventNotices(v, fx) ==
    SelectSeq(fx, LAMBDA c : \E i \in 1..Len(eventNames(v)) :
                                c = <<"notify", eventNotice(eventNames(v)[i])>>)

\* The draws of a tick that triggers an event, one for every value of the
\* scaled pick.
EventDraws(v) ==
    {[NoDraw EXCEPT !.roll = eventChance(v) - 1, !.pick = k, !.bonus = bo] :
        k \in 0..(totalWeight(v) - 1), bo \in {CHOOSE b \in BonusDraws(v) : TRUE}}

\* The policy sets one toggle away from pol, none and all.
NearbyPolicySets(pol) ==
    {[pol EXCEPT ![p] = ~@] : p \in Policies}
    \cup {NoPolicies, [p \in Policies |-> TRUE]}

\* C20: when a random event is triggered in a tick, exactly one event's effect
\* is applied: for every draw r in [0, sum of weights) the declaration-order
\* scan selects the first event i with r below the cumulative weight up to i,
\* and the chosen event does not depend on which policies are active.
C20_ExactlyOneWeightedEvent ==
    []((Running(gameState) /\ TickDue) =>
           \A d \in EventDraws(variant) :
               \E w \in {eventWeights(variant)} :
                   \E i \in {chooseWeighted(w, d.pick, 1)} :
                       /\ i \in 1..Len(w)
                       /\ d.pick < SumSeq(w, i)
                       /\ \A j \in 1..(i - 1) : d.pick >= SumSeq(w, j)
                       /\ (d.pick \in PickDraws(variant)) =>
                             /\ eventNotices(variant, simulateYear(variant, gameState, d).fx)
                                   = << <<"notify", eventNotice(eventNames(variant)[i])>> >>
                             /\ \A pol \in NearbyPolicySets(gameState.policies) :
                                   eventNotices(variant,
                                                rollEvent(variant, [gameState EXCEPT !.policies = pol], d, <<>>).fx)
                                      = << <<"notify", eventNotice(eventNames(variant)[i])>> >>)

\* A tick is due whose event roll can trigger an event, with some policy
\* active; the draws reach the last event of the list.
C20_Witness ==
    /\ Running(gameState) /\ TickDue
    /\ gameState.policies # NoPolicies
    /\ \E d \in TickDraws(variant, gameState) :
          /\ d.roll < eventChance(variant)
          /\ chosenEvent(variant, d) = eventNames(variant)[Len(eventNames(variant))]
          /\ Len(eventNotices(variant, simulateYear(variant, gameState, d).fx)) = 1

\* A step in which startGame() starts a run.
StartStep == ~gameState.started /\ gameState'.started

\* C22: a tick executes only when more than SIMULATION_INTERVAL has elapsed
\* since the later of startGame and the previous tick; in particular the first
\* year never advances sooner than 2.5 s after the game is started.  The timer
\* counts from the previous tick, so the claim is that a year advances only
\* with the timer above the interval, and that a step which starts the game
\* leaves no tick due.
C22_TickOnlyAfterInterval ==
    [][/\ (gameState'.year = gameState.year + 1) => elapsed > SIMULATION_INTERVAL
       /\ StartStep => ~(elapsed' > SIMULATION_INTERVAL)]_vars

\* The stage of simulateYear (variant A) a presentation call belongs to.
stageOf(c) ==
    CASE c[1] = "spawn" -> 1
      [] c[1] = "notify" /\ c[2] \in {"brainDrain", "integrated", "babyBoom", "scandal", "aging"} -> 1
      [] c[1] \in {"notify", "particles", "log"} -> 2
      [] c[1] = "achievement" -> 3
      [] c[1] = "hud" -> 4
      [] c[1] = "gameover" -> 5
      [] c[1] = "weather" -> 6
      [] OTHER -> 7

\* The same draws with the event roll failing.
withoutEvent(d) == [d EXCEPT !.roll = 99]

\* C23: in variant A every tick performs its stages in this order: year
\* increment, policy effects, strict modifier, clamped application, budget
\* ledger on the clamped values, score, optional random event, achievement
\* evaluation, terminal check, year summary.  So for every due tick with an
\* event: score is what the tick without the event gives, budget differs from
\* it by the event's own charge only, the statistics are the event's effect on
\* the statistics of the tick without the event, achievements and the terminal
\* check are those of the post-event statistics, and the presentation calls
\* come in stage order with the year summary last.
C23_StageOrderA ==
    []((variant = "A" /\ Running(gameState) /\ TickDue) =>
          \A d \in {e \in TickDraws("A", gameState) : e.roll < eventChance("A")} :
             \E r \in {simulateYear("A", gameState, d)} :
                \E q \in {simulateYear("A", gameState, withoutEvent(d))} :
                   \E ev \in {triggerRandomEventA(q.gs, d).gs} :
                      /\ r.gs.year = gameState.year + 1
                      /\ r.gs.score = q.gs.score
                      /\ NationState(r.gs) = NationState(ev)
                      /\ q.gs.budget = gameState.budget
                                       - (IF yearChangesA(gameState, d).scandal THEN 1000 ELSE 0)
                                       + calculateYearlyBudget(q.gs)
                      /\ \A id \in AchievementIds :
                            AchievementHolds(r.gs, id) => id \in r.gs.achievements
                      /\ r.ended = checkGameState("A", r.gs)
                      /\ \A i \in 1..(Len(r.fx) - 1) : stageOf(r.fx[i]) <= stageOf(r.fx[i + 1])
                      /\ r.fx[Len(r.fx)] = <<"summary">>)

\* A due tick of variant A whose event lifts gdp over an achievement's
\* threshold and whose budget ledger would read differently after the event.
C23_Witness ==
    /\ variant = "A" /\ Running(gameState) /\ TickDue
    /\ \E d \in {e \in TickDraws("A", gameState) : e.roll < eventChance("A")} :
          \E r \in {simulateYear("A", gameState, d)} :
             \E q \in {simulateYear("A", gameState, withoutEvent(d))} :
                /\ r.gs.achievements # q.gs.achievements
                /\ calculateYearlyBudget(r.gs) # calculateYearlyBudget(q.gs)

\* gameState with one policy switch set, everything else as it is.
withPolicy(gs, p, on) == [gs EXCEPT !.policies[p] = on]

\* The draws the policy section of a tick of variant A depends on.
PolicyDraws ==
    {[NoDraw EXCEPT !.noise = n, !.leave = l, !.boom = b, !.scandal = s] :
        n \in NoiseDraws, l, b, s \in BOOLEAN}

\* C24: in variant A with strict active, strict is a modifier over the totals
\* accumulated from the base terms and all other active policies:
\* populationChange = floor(0.5 * accumulated) - floor(0.008 * population),
\* gdpChange = floor(0.7 * accumulated) - floor(0.01 * gdp),
\* happinessChange = accumulated + 20, with the pre-tick population and gdp;
\* and the result is the same whatever order the other policies were enabled
\* in.
C24_StrictIsModifierA ==
    []((variant = "A" /\ Running(gameState) /\ TickDue /\ gameState.policies["strict"]) =>
          /\ \A d \in PolicyDraws :
                \E with \in {yearChangesA(gameState, d)} :
                   \E acc \in {yearChangesA(withPolicy(gameState, "strict", FALSE), d)} :
                      /\ with.pc = (acc.pc \div 2) - ((8 * gameState.population) \div 1000)
                      /\ with.gc = Floor07(acc.gc) - (gameState.gdp \div 100)
                      /\ with.hc = acc.hc + 20 * HScale
                      /\ with.uc = acc.uc
          /\ \A p1, p2 \in {p \in Policies \ {"strict"} : ~gameState.policies[p]} :
                \E a \in {togglePolicy("A", togglePolicy("A", gameState, p1).gs, p2).gs} :
                   \E b \in {togglePolicy("A", togglePolicy("A", gameState, p2).gs, p1).gs} :
                      a.policies = b.policies =>
                         \A d \in PolicyDraws : yearChangesA(a, d) = yearChangesA(b, d))

\* A due tick of variant A with strict and two more policies active, whose
\* accumulated population change is odd, and where two further policies can
\* be enabled in either order.
C24_Witness ==
    /\ variant = "A" /\ Running(gameState) /\ TickDue /\ gameState.policies["strict"]
    /\ Cardinality({p \in Policies : gameState.policies[p]}) >= 3
    /\ \E d \in PolicyDraws :
          yearChangesA(withPolicy(gameState, "strict", FALSE), d).pc % 2 = 1
    /\ \E p1, p2 \in {p \in Policies \ {"strict"} : ~gameState.policies[p]} :
          /\ p1 # p2
          /\ togglePolicy("A", togglePolicy("A", gameState, p1).gs, p2).gs.policies[p1]
          /\ togglePolicy("A", togglePolicy("A", gameState, p1).gs, p2).gs.policies[p2]

\* The sum of f over the set S.
RECURSIVE SumOver(_, _)
SumOver(S, f) ==
    IF S = {} THEN 0
    ELSE LET x == CHOOSE y \in S : TRUE IN f[x] + SumOver(S \ {x}, f)

withDifficulty(gs, dif) == [gs EXCEPT !.difficulty = dif]

\* C26: in variant A's tick the population-scaled GDP growth term is scaled by
\* the chosen difficulty's gdpMultiplier and the immigration-driven
\* unemployment pressure by its unempMultiplier, so with identical policies and
\* random draws the GDP and unemployment changes of a tick differ between
\* easy, medium and hard (the unemployment change whenever a policy brings
\* immigrants).
C26_DifficultyScalesTickA ==
    (variant = "A" /\ Running(gameState) /\ TickDue) =>
        \A d \in PolicyDraws :
            \A dif1, dif2 \in Difficulties :
                dif1 # dif2 =>
                    \E c1 \in {yearChangesA(withDifficulty(gameState, dif1), d)} :
                        \E c2 \in {yearChangesA(withDifficulty(gameState, dif2), d)} :
                            /\ c1.gc # c2.gc
                            /\ c1.immigrants > 0 => c1.uc # c2.uc

integrationShown(gs, d) ==
    \E i \in 1..Len(simulateYear("A", gs, d).fx) :
        simulateYear("A", gs, d).fx[i] = <<"notify", "integrated">>

\* gameState after the refugee policy is enabled now (disabled first if it is
\* active).
refugeeEnabledNow(gs) ==
    togglePolicy("A", IF gs.policies["refugee"]
                      THEN togglePolicy("A", gs, "refugee").gs ELSE gs, "refugee").gs

\* C29: in variant A the refugee integration bonus (+600 gdp, -1.0
\* unemployment) is applied in a tick exactly when refugee is active and the
\* post-increment year is >= refugeeProgramStarted + 2: never on the first tick
\* after the policy is (re-)enabled, and on every tick from the second onward
\* while it stays active; re-enabling after a disable restarts the delay.
C29_RefugeeIntegrationDelayA ==
    []((variant = "A" /\ Running(gameState) /\ TickDue) =>
          /\ \A d \in PolicyDraws :
                \E due \in {/\ gameState.policies["refugee"]
                            /\ gameState.year + 1 >= gameState.refugeeProgramStarted + 2} :
                   \E c \in {yearChangesA(gameState, d)} :
                      \E fresh \in {yearChangesA([gameState EXCEPT !.refugeeProgramStarted = @ + 1000], d)} :
                         /\ integrationShown(gameState, d) = due
                         /\ ~gameState.policies["strict"] =>
                               /\ c.gc - fresh.gc = (IF due THEN 600 ELSE 0)
                               /\ c.uc - fresh.uc = (IF due THEN 0 - UScale ELSE 0)
          /\ \E on \in {refugeeEnabledNow(gameState)} :
                on.policies["refugee"] =>
                   /\ on.refugeeProgramStarted = gameState.year
                   /\ ~integrationShown(on, NoDraw)
                   /\ \E y1 \in {quietYear("A", on)} :
                         y1.started =>
                            /\ integrationShown(y1, NoDraw)
                            /\ \E y2 \in {quietYear("A", y1)} :
                                  y2.started => integrationShown(y2, NoDraw))

\* A due tick of variant A in which the bonus is applied, in a state where the
\* policy can be disabled and enabled again and two more years can pass.
C29_Witness ==
    /\ variant = "A" /\ Running(gameState) /\ TickDue
    /\ gameState.policies["refugee"]
    /\ integrationShown(gameState, NoDraw)
    /\ \E on \in {refugeeEnabledNow(gameState)} :
          /\ on.policies["refugee"]
          /\ on.refugeeProgramStarted > gameState.refugeeProgramStarted
          /\ quietYear("A", quietYear("A", on)).started

\* C30: whenever startGame is called, including while a run is already in
\* progress, it sets started = true, paused = false and
\* budget = difficultySettings[difficulty].budget + INITIAL_BUDGET, and leaves
\* year, population, gdp, happiness, unemployment, score, policies and
\* achievements unchanged.
C30_StartGameFrame ==
    /\ [](\E g \in {startGame(variant, gameState)} :
             /\ g.started /\ ~g.paused
             /\ g.budget = difficultySettings[gameState.difficulty].budget + INITIAL_BUDGET(variant)
             /\ Statistics(g) = Statistics(gameState)
             /\ g.policies = gameState.policies
             /\ g.achievements = gameState.achievements
             /\ g.difficulty = gameState.difficulty)
    /\ [][(menu = "main" /\ menu' = "main" /\ elapsed' = elapsed
           /\ gameState'.budget # gameState.budget
           /\ gameState'.policies = gameState.policies) =>
             /\ gameState'.started /\ ~gameState'.paused
             /\ gameState'.budget
                   = difficultySettings[gameState.difficulty].budget + INITIAL_BUDGET(variant)
             /\ Frozen([gameState' EXCEPT !.budget = 0]) = Frozen([gameState EXCEPT !.budget = 0])]_vars

\* START GAME pressed during a run: the year has advanced, a policy is active,
\* and the budget is the starting budget again.
C30_Witness ==
    /\ gameState.started /\ ~gameState.paused
    /\ gameState.year > INITIAL_YEAR
    /\ gameState.policies # NoPolicies
    /\ gameState.score > 0
    /\ nTicks = MaxTicks - 1 /\ nToggles = 0
    /\ gameState.budget
          = difficultySettings[gameState.difficulty].budget + INITIAL_BUDGET(variant)

\* ------------------------------------------------------------------ frames
\* The frame that updates the people whether the game is paused or not.
animateUpdatesPeopleWhenPaused(v, gs, due) ==
    <<"updatePeople">>
    \o (IF gs.started /\ due /\ (v = "A" \/ ~gs.paused) THEN <<"simulateYear">> ELSE <<>>)
    \o <<"render">>
\* animate(): the calls of one animation frame, in order.  Variant A moves
\* the people only while the game is not paused (script.js 1575-1583);
\* variant B renders and returns from a paused frame before updateObjects(),
\* which moves them (script.js 3175-3178, 3033).  `due` is the timer test
\* of the frame; simulateYear() itself returns at once while paused.
animate(v, gs, due) ==
    IF v = "B" /\ gs.paused
    THEN <<"render">>
    ELSE (IF ~gs.paused THEN <<"updatePeople">> ELSE <<>>)
         \o (IF gs.started /\ due THEN <<"simulateYear">> ELSE <<>>)
         \o <<"render">>

Calls(fx) == {fx[i] : i \in DOMAIN fx}

C32_StartedMeansNotTerminalA ==
    (variant = "A" /\ gameState.started) =>
        /\ gameState.happiness > 0
        /\ gameState.unemployment < 40 * UScale
        /\ gameState.budget >= 0 - 15000
        /\ gameState.population > 500

\* A paused variant A session after a tick and a toggle that is still
\* started with its happiness almost spent.
C32_Witness ==
    /\ variant = "A"
    /\ gameState.started
    /\ gameState.paused
    /\ nTicks = MaxTicks
    /\ nToggles = MaxToggles
    /\ gameState.year > INITIAL_YEAR + 1
    /\ gameState.happiness <= 13 * HScale

\* C33: at the end of every completed tick, every achievement whose
\* predicate holds on the tick's final statistics (after any random event)
\* is contained in the unlocked set.
C33_AchievementsCompleteAfterTick ==
    [][TickStep =>
          \A id \in AchievementIds :
              AchievementHolds(gameState', id) => id \in gameState'.achievements]_vars

\* The first tick of a session ended with a Cultural Festival that took the
\* happiness from below 90 to above 100, and Utopia is unlocked.
C33_Witness ==
    /\ variant = "A"
    /\ nTicks = MaxTicks
    /\ gameState.year = INITIAL_YEAR + 1
    /\ gameState.happiness > 100 * HScale
    /\ gameState.achievements = {"gdp_25000", "gdp_50000", "happy_90"}

\* C34: in variant B budget is never negative in any reachable state (ticks
\* add floor(gdp/3.5) computed on gdp >= 1000, every policy cost is positive
\* and an enable requires cost <= budget, events do not touch budget), so the
\* bankruptcy game-over is unreachable in that variant.
C34_BudgetNeverNegativeB ==
    /\ [](variant = "B" =>
            /\ gameState.budget >= 0
            /\ menu # "bankruptcy"
            /\ \A p \in Policies : policyCosts("B")[p] > 0)
    /\ [][(variant = "B" /\ ~RestartStep) =>
            /\ TickStep =>
                 \E d \in TickDraws(variant, gameState) :
                    \E g1 \in {yearStatisticsB(gameState, d)} :
                        /\ g1.gdp >= 1000
                        /\ gameState'.budget = gameState.budget + (10 * g1.gdp) \div 35
            /\ gameState'.budget < gameState.budget =>
                 \/ \E p \in Policies :
                       /\ ~gameState.policies[p] /\ gameState'.policies[p]
                       /\ policyCosts("B")[p] <= gameState.budget
                       /\ gameState'.budget = gameState.budget - policyCosts("B")[p]
                 \/ /\ gameState' = startGame(variant, gameState)
                    /\ gameState'.budget > 0]_vars

\* A variant B session whose last enable spent the budget to the last
\* dollar, so that no policy can be enabled before the next tick.
C34_Witness ==
    /\ variant = "B"
    /\ gameState.started
    /\ nToggles = MaxToggles
    /\ gameState.budget = 0
    /\ \A p \in Policies : gameState.policies[p] \/ toggleRejected(variant, gameState, p)

\* C35: in variant B population never decreases and is always >= 1000 (ticks
\* only add a non-negative immigrant total and no event changes population),
\* so the population-crisis game-over (population <= 100) is unreachable in
\* that variant.
C35_PopulationNeverDecreasesB ==
    /\ [](variant = "B" =>
            /\ gameState.population >= INITIAL_POPULATION
            /\ menu # "population")
    /\ [][(variant = "B" /\ ~RestartStep) =>
            /\ gameState'.population >= gameState.population
            /\ gameState'.population # gameState.population => TickStep
            /\ TickStep =>
                 /\ totalImmigrantsB(gameState.policies) >= 0
                 /\ gameState'.population =
                        gameState.population + totalImmigrantsB(gameState.policies)]_vars

\* A tick of variant B in which Natural Disaster struck a nation whose
\* happiness had run out, and which left the grown population as it was.
C35_Witness ==
    /\ variant = "B"
    /\ nTicks = MaxTicks
    /\ gameState.happiness < 0
    /\ gameState.population > INITIAL_POPULATION

\* C36: in variant B the number of person objects registered in the scene
\* never exceeds MAX_PEOPLE (150), even when several createPerson calls have
\* passed the capacity check and are still waiting for their asynchronous
\* model load to resolve or reject.
C36_PeopleWithinCapacityB ==
    variant = "B" => people <= MAX_PEOPLE

\* The tick on which the untouched game is said to end.
CollapseTick(dif) ==
    CASE dif = "easy" -> 70 [] dif = "medium" -> 35 [] dif = "hard" -> 20

\* C37: in variant A, if the game is started from defaults, is never paused,
\* no policy is ever enabled and no random event fires, the game eventually
\* ends, with the unhappiness reason, on exactly tick
\* ceil(70 / happinessDrain) (tick 70 on easy, 35 on medium, 20 on hard) and
\* not earlier for any other reason.
C37_UntouchedGameCollapses ==
    /\ [](\E T \in {CollapseTick(gameState.difficulty)} :
            /\ \E drain \in {difficultySettings[gameState.difficulty].happinessDrain} :
                  T = (INITIAL_HAPPINESS * HScale + drain - 1) \div drain
            /\ gameState.policies = NoPolicies
            /\ gameState.started =>
                  /\ nTicks < T
                  /\ menu = "main"
                  /\ gameState.year = INITIAL_YEAR + nTicks
            /\ ~gameState.started =>
                  /\ nTicks = T
                  /\ menu = "unhappiness"
                  /\ gameState.happiness = 0
                  /\ gameState.year = INITIAL_YEAR + T)
    /\ <>(menu = "unhappiness")

\* The untouched game on easy after its seventieth tick: over, for
\* unhappiness.
C37_Witness ==
    /\ variant = "A"
    /\ gameState.difficulty = "easy"
    /\ nTicks = 70
    /\ ~gameState.started
    /\ gameState.policies = NoPolicies
    /\ menu = "unhappiness"

====
